---- MODULE Spec2Model ----
(***************************************************************************)
(* A model of sass-token-importer (src/sass-token-importer.js): the format *)
(* detector, the token extractor, the alias resolver and the stylesheet    *)
(* generator.                                                              *)
(*                                                                         *)
(* JavaScript strings are sequences of one-character strings, so that the  *)
(* operations that look inside a string (the alias pattern, join('.'),     *)
(* startsWith('$'), sanitizeName) are computed and not assumed.            *)
(***************************************************************************)
EXTENDS Integers, Sequences, FiniteSets, TLC

VARIABLES
  \* resolveAliases(tokens)
  tokens,      \* the token array, mutated in place
  orig,        \* the array as it was handed to the call in progress (or the last one)
  resolved,    \* const resolved = new Set()
  resolving,   \* const resolving = new Set()
  stack,       \* the resolveToken activations in progress, innermost last
  idx,         \* position of the for-of loop of line 147
  status,      \* "idle" | "running" | "returned" | "threw"
  errKey,      \* the key named by the thrown Error
  calls,       \* number of calls of resolveAliases that returned
  \* detectFormat(data), extractTokens(data, format)
  doc,         \* the parsed token document
  format,      \* what detectFormat returned
  usedFormat,  \* the format argument of extractTokens
  etokens,     \* what extractTokens returned
  ephase,      \* "off" | "parsed" | "detected" | "extracted"
  \* generateScss(tokens, mode)
  gtokens,     \* the token array handed to generateScss
  mode,        \* 'variables' | 'map'
  lines,       \* the lines array of the generator that ran
  tree,        \* the tree object of generateScssMap
  contents,    \* the returned string
  rendered,    \* the tokens handed to convertValue by the generator, in order, each
               \* with the sanitized path it was rendered under
  gphase,      \* "off" | "ready" | "done"
  \* convertValue(value, type)
  cvalue,      \* the value argument
  ctype,       \* the type argument
  converted,   \* the returned string
  subTypes,    \* what inferSubType returned for each entry of a composite value
  cphase,      \* "off" | "ready" | "done"
  \* sassTokenImporter(tokenPaths, options) and load(canonicalUrl)
  files,       \* the file system: what readFileSync gives for each path
  cache,       \* const cache = new Map(), one for each importer
  history,     \* the calls of load so far, each with its outcome
  nextId,      \* the number of result objects created, plus one
  writes       \* the number of times a file was changed

rvars == <<tokens, orig, resolved, resolving, stack, idx, status, errKey, calls>>
evars == <<doc, format, usedFormat, etokens, ephase>>
gvars == <<gtokens, mode, lines, tree, contents, rendered, gphase>>
cvars == <<cvalue, ctype, converted, subTypes, cphase>>
ivars == <<files, cache, history, nextId, writes>>
vars == <<rvars, evars, gvars, cvars, ivars>>

----------------------------------------------------------------------------
(* JavaScript values.  Every value is a record of the same shape:          *)
(*   k = "str"  : the string s                                             *)
(*   k = "num"  : the number n                                             *)
(*   k = "list" : the array of the e[i].val                                *)
(*   k = "obj"  : the object with entries e[i].key -> e[i].val, in         *)
(*                Object.keys order                                        *)
(*   k = "undef": undefined                                                *)

Str(s) == [k |-> "str", s |-> s, n |-> 0, e |-> <<>>]
Num(n) == [k |-> "num", s |-> <<>>, n |-> n, e |-> <<>>]
\* A number given in hundredths: 50 is 0.5.  A whole number is the same value
\* as Num gives.
Decimal(h) ==
  IF h % 100 = 0 THEN Num(h \div 100)
  ELSE [k |-> "dec", s |-> <<>>, n |-> h, e |-> <<>>]

\* typeof v === 'number'
IsNumber(v) == v.k \in {"num", "dec"}

\* A number, in hundredths
Hundredths(v) == IF v.k = "num" THEN 100 * v.n ELSE v.n

Entry(key, val) == [key |-> key, val |-> val]
List(items) == [k |-> "list", s |-> <<>>, n |-> 0,
                e |-> [i \in 1..Len(items) |-> Entry(<<>>, items[i])]]
Obj(entries) == [k |-> "obj", s |-> <<>>, n |-> 0, e |-> entries]
Undefined == [k |-> "undef", s |-> <<>>, n |-> 0, e |-> <<>>]

\* typeof v === 'object' && v !== null && !Array.isArray(v)
IsPlainObject(v) == v.k = "obj"

\* 'key' in node
HasKey(node, key) == \E i \in 1..Len(node.e) : node.e[i].key = key

\* node[key] (undefined when the key is absent)
Get(node, key) ==
  IF HasKey(node, key)
  THEN node.e[CHOOSE i \in 1..Len(node.e) : node.e[i].key = key].val
  ELSE Undefined

\* JavaScript truthiness of the values above
Truthy(v) ==
  CASE v.k = "undef" -> FALSE
    [] v.k = "str" -> v.s # <<>>
    [] v.k = "num" -> v.n # 0
    [] OTHER -> TRUE

\* Array.prototype.join(sep) on an array of strings
RECURSIVE JoinWith(_, _)
JoinWith(parts, sep) ==
  IF parts = <<>> THEN <<>>
  ELSE IF Len(parts) = 1 THEN parts[1]
  ELSE parts[1] \o sep \o JoinWith(Tail(parts), sep)

\* token.path.join('.')
PathKey(path) == JoinWith(path, <<".">>)

----------------------------------------------------------------------------
(* resolveAliases                                                          *)

LineTerminators == {"\n", "\r"}

\* value.match(/^\{(.+)\}$/): the whole string is "{", one or more
\* characters other than line terminators, "}"
AliasMatch(s) ==
  /\ Len(s) >= 3
  /\ s[1] = "{"
  /\ s[Len(s)] = "}"
  /\ \A i \in 2..(Len(s) - 1) : s[i] \notin LineTerminators

\* aliasMatch[1]
RefPath(s) == SubSeq(s, 2, Len(s) - 1)

\* tokenMap.get(key): the index of the last token set under the key, 0 if none
TokenMapGet(toks, key) ==
  LET hits == {i \in 1..Len(toks) : PathKey(toks[i].path) = key}
  IN IF hits = {} THEN 0 ELSE CHOOSE i \in hits : \A j \in hits : j <= i

\* The places of a value where resolveValue takes the aliasMatch branch, in
\* the order resolveValue reaches them: a place is the sequence of entry
\* indices leading to it through plain objects.  Arrays, numbers and
\* strings that do not match are returned as they are.
RECURSIVE AliasPlaces(_)
RECURSIVE AliasPlacesFrom(_, _)
AliasPlacesFrom(v, i) ==
  IF i > Len(v.e) THEN <<>>
  ELSE LET sub == AliasPlaces(v.e[i].val)
       IN [j \in 1..Len(sub) |-> <<i>> \o sub[j]] \o AliasPlacesFrom(v, i + 1)
\* resolveValue with the Array.isArray test of line 128 left out
AliasPlacesIntoArrays(v) ==
  IF v.k = "str" THEN (IF AliasMatch(v.s) THEN << <<>> >> ELSE <<>>)
  ELSE IF v.k \in {"obj", "list"} THEN AliasPlacesFrom(v, 1)
  ELSE <<>>
AliasPlaces(v) ==
  IF v.k = "str" THEN (IF AliasMatch(v.s) THEN << <<>> >> ELSE <<>>)
  ELSE IF IsPlainObject(v) THEN AliasPlacesFrom(v, 1)
  ELSE <<>>

RECURSIVE ValueAt(_, _)
ValueAt(v, place) ==
  IF place = <<>> THEN v ELSE ValueAt(v.e[Head(place)].val, Tail(place))

\* result[k] = ... at a place of the value being rebuilt
RECURSIVE PutAt(_, _, _)
PutAt(v, place, new) ==
  IF place = <<>> THEN new
  ELSE [v EXCEPT !.e[Head(place)].val = PutAt(@, Tail(place), new)]

Frame(i, toks) ==
  [tok |-> i, work |-> toks[i].value, todo |-> AliasPlaces(toks[i].value)]

Top == stack[Len(stack)]
Pop(s) == SubSeq(s, 1, Len(s) - 1)


----------------------------------------------------------------------------
(* The token arrays handed to resolveAliases.  Two different paths join to *)
(* the key "a.b": <<"a", "b">> and <<"a.b">>.                              *)

MaxTokens == 3
MaxCalls == 2

Seg_a == <<"a">>
Seg_b == <<"b">>
Seg_a_b == <<"a", ".", "b">>
Seg_z == <<"z">>

Braced(key) == <<"{">> \o key \o <<"}">>

T_color == <<"c", "o", "l", "o", "r">>

ResolvePaths == {<<Seg_a>>, <<Seg_b>>, <<Seg_a, Seg_b>>, <<Seg_a_b>>}

ResolveValues ==
  { Str(Braced(Seg_a)),                       \* "{a}"
    Str(Braced(Seg_b)),                       \* "{b}"
    Str(Braced(Seg_a_b)),                     \* "{a.b}"
    Str(Braced(Seg_z)),                       \* "{z}": no such token
    Str(<<"x">>),                             \* a literal
    Str(<<"x">> \o Braced(Seg_a)),            \* "x{a}": pattern inside a longer string
    Num(1),
    List(<<Str(Braced(Seg_a))>>),             \* ["{a}"]
    Obj(<<Entry(<<"c">>, Str(Braced(Seg_b))), \* {c: "{b}", w: "x", n: {c: "{a.b}"}}
          Entry(<<"w">>, Str(<<"x">>)),
          Entry(<<"n">>, Obj(<<Entry(<<"c">>, Str(Braced(Seg_a_b)))>>))>>) }

ResolveTokens ==
  {[path |-> p, type |-> Str(T_color), value |-> v] : p \in ResolvePaths, v \in ResolveValues}

TokenArrays(universe, max) == UNION {[1..n -> universe] : n \in 0..max}

NoKey == <<>>

ResolveOff ==
  /\ tokens = <<>> /\ orig = <<>>
  /\ resolved = {} /\ resolving = {} /\ stack = <<>>
  /\ idx = 0 /\ status = "off" /\ errKey = NoKey /\ calls = 0

ExtractOff ==
  /\ doc = Undefined /\ format = "none" /\ usedFormat = "none"
  /\ etokens = <<>> /\ ephase = "off"

GenOff ==
  /\ gtokens = <<>> /\ mode = "none" /\ lines = <<>> /\ tree = <<>>
  /\ contents = <<>> /\ rendered = <<>> /\ gphase = "off"

ConvertOff ==
  /\ cvalue = Undefined /\ ctype = Undefined /\ converted = <<>>
  /\ subTypes = <<>> /\ cphase = "off"

ImportOff ==
  /\ files = <<>> /\ cache = <<>> /\ history = <<>> /\ nextId = 0 /\ writes = 0

InitResolve ==
  /\ tokens \in TokenArrays(ResolveTokens, MaxTokens)
  /\ orig = tokens
  /\ resolved = {} /\ resolving = {} /\ stack = <<>>
  /\ idx = 0 /\ status = "idle" /\ errKey = NoKey /\ calls = 0
  /\ ExtractOff /\ GenOff /\ ConvertOff /\ ImportOff

\* resolveAliases(tokens) is called: lines 105-111.  The array a call returned
\* may be handed to a second call.
CallResolveAliases ==
  /\ status = "idle" \/ (status = "returned" /\ calls < MaxCalls)
  /\ status' = "running"
  /\ orig' = tokens
  /\ resolved' = {} /\ resolving' = {} /\ stack' = <<>>
  /\ idx' = 1 /\ errKey' = NoKey
  /\ UNCHANGED <<tokens, calls, evars, gvars, cvars, ivars>>

\* The loop with resolveToken lacking the test of line 140
LoopWithoutMemo ==
  /\ status = "running" /\ stack = <<>> /\ idx <= Len(tokens)
  /\ resolving' = resolving \cup {PathKey(tokens[idx].path)}
  /\ stack' = <<Frame(idx, tokens)>>
  /\ UNCHANGED <<tokens, orig, resolved, idx, status, errKey, calls, evars, gvars, cvars, ivars>>

\* for (const token of tokens) resolveToken(token): lines 147-148 and 139-141
LoopResolveToken ==
  /\ status = "running" /\ stack = <<>> /\ idx <= Len(tokens)
  /\ LET key == PathKey(tokens[idx].path)
     IN IF key \in resolved
        THEN /\ idx' = idx + 1
             /\ UNCHANGED <<resolving, stack>>
        ELSE /\ resolving' = resolving \cup {key}
             /\ stack' = <<Frame(idx, tokens)>>
             /\ idx' = idx
  /\ UNCHANGED <<tokens, orig, resolved, status, errKey, calls, evars, gvars, cvars, ivars>>

\* resolveValue reaches a string that matches the alias pattern: lines 116-125,
\* with the call of resolveToken(refToken) up to line 141
ResolveAliasValue ==
  /\ status = "running" /\ stack # <<>> /\ Top.todo # <<>>
  /\ LET place == Head(Top.todo)
         refPath == RefPath(ValueAt(Top.work, place).s)
         ref == TokenMapGet(tokens, refPath)
         n == Len(stack)
     IN IF refPath \in resolving
        THEN /\ status' = "threw"
             /\ errKey' = refPath
             /\ UNCHANGED <<resolving, stack>>
        ELSE /\ UNCHANGED <<status, errKey>>
             /\ IF ref = 0
                THEN /\ stack' = [stack EXCEPT ![n].todo = Tail(@)]
                     /\ UNCHANGED resolving
                ELSE IF PathKey(tokens[ref].path) \in resolved
                THEN /\ stack' = [stack EXCEPT
                                    ![n].work = PutAt(@, place, tokens[ref].value),
                                    ![n].todo = Tail(@)]
                     /\ UNCHANGED resolving
                ELSE /\ resolving' = resolving \cup {PathKey(tokens[ref].path)}
                     /\ stack' = Append(stack, Frame(ref, tokens))
  /\ UNCHANGED <<tokens, orig, resolved, idx, calls, evars, gvars, cvars, ivars>>

\* resolveValue has returned to resolveToken: lines 142-144, and the return
\* of refToken.value to the caller's resolveValue (line 124)
FinishResolveToken ==
  /\ status = "running" /\ stack # <<>> /\ Top.todo = <<>>
  /\ LET key == PathKey(tokens[Top.tok].path)
         n == Len(stack)
     IN /\ tokens' = [tokens EXCEPT ![Top.tok].value = Top.work]
        /\ resolving' = resolving \ {key}
        /\ resolved' = resolved \cup {key}
        /\ IF n = 1
           THEN /\ stack' = <<>>
                /\ idx' = idx + 1
           ELSE /\ stack' = [Pop(stack) EXCEPT
                               ![n - 1].work = PutAt(@, Head(stack[n - 1].todo), Top.work),
                               ![n - 1].todo = Tail(@)]
                /\ idx' = idx
  /\ UNCHANGED <<orig, status, errKey, calls, evars, gvars, cvars, ivars>>

\* return tokens: line 151
ReturnTokens ==
  /\ status = "running" /\ stack = <<>> /\ idx > Len(tokens)
  /\ status' = "returned"
  /\ calls' = calls + 1
  /\ UNCHANGED <<tokens, orig, resolved, resolving, stack, idx, errKey, evars, gvars, cvars, ivars>>

NextResolve ==
  \/ CallResolveAliases
  \/ LoopResolveToken
  \/ ResolveAliasValue
  \/ FinishResolveToken
  \/ ReturnTokens

SpecResolve == InitResolve /\ [][NextResolve]_vars

----------------------------------------------------------------------------
(* Properties of resolveAliases                                            *)

KeysOf(toks) == {PathKey(toks[i].path) : i \in 1..Len(toks)}

\* v and every sub-field of v, at any depth, reached through objects only
RECURSIVE SubFields(_)
SubFields(v) ==
  {v} \cup (IF v.k = "obj" THEN UNION {SubFields(v.e[i].val) : i \in 1..Len(v.e)} ELSE {})

\* w is the whole string "{key}" for the identity key of a token of toks
IsAliasIn(w, toks) == w.k = "str" /\ \E key \in KeysOf(toks) : w.s = Braced(key)

HasAliasIn(v, toks) == \E w \in SubFields(v) : IsAliasIn(w, toks)

\* The keys the tokens under key k refer to
RefsOfKey(k, toks) ==
  {key \in KeysOf(toks) :
     \E i \in 1..Len(toks) :
        /\ PathKey(toks[i].path) = k
        /\ \E w \in SubFields(toks[i].value) : w.k = "str" /\ w.s = Braced(key)}

\* The keys reached from the keys of S by one or more references
RECURSIVE ReachedFrom(_, _, _)
ReachedFrom(S, toks, n) ==
  LET step == S \cup UNION {RefsOfKey(k, toks) : k \in S}
  IN IF n = 0 \/ step = S THEN S ELSE ReachedFrom(step, toks, n - 1)

OnCycle(k, toks) ==
  k \in KeysOf(toks) /\ k \in ReachedFrom(RefsOfKey(k, toks), toks, Len(toks))

Cyclic(toks) == \E k \in KeysOf(toks) : OnCycle(k, toks)

DistinctKeys(toks) ==
  \A i, j \in 1..Len(toks) : i # j => PathKey(toks[i].path) # PathKey(toks[j].path)

\* C1: when resolveAliases has returned, no token value and no sub-field of
\* an object-valued token value is still a whole-string alias "{key}" whose
\* key is in the lookup mapping.
C1_NoAliasLeft ==
  status = "returned" =>
    \A i \in 1..Len(tokens) : ~HasAliasIn(tokens[i].value, tokens)

\* C2: resolveAliases throws the circular-reference error exactly when the
\* alias references of the array it was given contain a cycle, and the key
\* the error names lies on a cycle.
C2_ThrowsIffCyclic ==
  /\ status = "threw" => (Cyclic(orig) /\ OnCycle(errKey, orig))
  /\ status = "returned" => ~Cyclic(orig)

\* C7: resolveAliases keeps the length and order of the array and every
\* token's path and type, and every value that neither is nor contains in an
\* object sub-field a whole-string alias to an existing key keeps its value.
C7_Frame ==
  /\ Len(tokens) = Len(orig)
  /\ \A i \in 1..Len(tokens) :
        /\ tokens[i].path = orig[i].path
        /\ tokens[i].type = orig[i].type
        /\ ~HasAliasIn(orig[i].value, orig) => tokens[i].value = orig[i].value

\* A call has returned in which one token was rewritten while an array
\* holding an alias string, an alias to a missing key and a string with the
\* pattern inside longer text were in the array
C7_Witness ==
  /\ status = "returned" /\ calls = 1
  /\ \E i \in 1..Len(tokens) : tokens[i].value # orig[i].value
  /\ \E i \in 1..Len(tokens) :
        orig[i].value \in {List(<<Str(Braced(Seg_a))>>), Str(Braced(Seg_z)),
                           Str(<<"x">> \o Braced(Seg_a))}

\* C8: a second call of resolveAliases on the array a first call returned
\* returns too and leaves every token as the first call left it.
C8_Idempotent ==
  (calls = 2 \/ (calls = 1 /\ status \in {"running", "threw"})) =>
    (status # "threw" /\ tokens = orig)

----------------------------------------------------------------------------
(* Strings: the helpers of sanitizeName and convertValue                    *)

LowerLetters == <<"a", "b", "c", "d", "e", "f", "g", "h", "i", "j", "k", "l", "m", "n", "o", "p", "q", "r", "s", "t", "u", "v", "w", "x", "y", "z">>
UpperLetters == <<"A", "B", "C", "D", "E", "F", "G", "H", "I", "J", "K", "L", "M", "N", "O", "P", "Q", "R", "S", "T", "U", "V", "W", "X", "Y", "Z">>
Digits == <<"0", "1", "2", "3", "4", "5", "6", "7", "8", "9">>

Range(seq) == {seq[i] : i \in 1..Len(seq)}

\* String.prototype.toLowerCase, one character
LowerChar(c) ==
  IF c \in Range(UpperLetters)
  THEN LowerLetters[CHOOSE i \in 1..Len(UpperLetters) : UpperLetters[i] = c]
  ELSE c

toLowerCase(s) == [i \in 1..Len(s) |-> LowerChar(s[i])]

\* str.replace(/([a-z])([A-Z])/g, '$1-$2'): a dash between a lower-case
\* letter and the upper-case letter that follows it
RECURSIVE DashBeforeUpper(_)
DashBeforeUpper(s) ==
  IF Len(s) <= 1 THEN s
  ELSE IF s[1] \in Range(LowerLetters) /\ s[2] \in Range(UpperLetters)
       THEN <<s[1], "-">> \o DashBeforeUpper(Tail(s))
       ELSE <<s[1]>> \o DashBeforeUpper(Tail(s))

\* transformCamelCaseToDash of book-of-spells: 'fontSize' becomes 'font-size'
transformCamelCaseToDash(s) == toLowerCase(DashBeforeUpper(s))

\* [a-zA-Z0-9_-]
NameChars == Range(LowerLetters) \cup Range(UpperLetters) \cup Range(Digits) \cup {"_", "-"}

\* .replace(/[^a-zA-Z0-9_-]/g, '-')
ReplaceOtherChars(s) == [i \in 1..Len(s) |-> IF s[i] \in NameChars THEN s[i] ELSE "-"]

\* .replace(/-{2,}/g, '-')
RECURSIVE CollapseDashes(_)
CollapseDashes(s) ==
  IF Len(s) <= 1 THEN s
  ELSE IF s[1] = "-" /\ s[2] = "-" THEN CollapseDashes(Tail(s))
  ELSE <<s[1]>> \o CollapseDashes(Tail(s))

\* .replace(/^-|-$/g, '')
TrimDashes(s) ==
  LET s1 == IF s # <<>> /\ s[1] = "-" THEN Tail(s) ELSE s
  IN IF s1 # <<>> /\ s1[Len(s1)] = "-" THEN SubSeq(s1, 1, Len(s1) - 1) ELSE s1

sanitizeName(name) ==
  TrimDashes(CollapseDashes(ReplaceOtherChars(transformCamelCaseToDash(name))))

\* The decimal digits of a natural number
RECURSIVE NatToString(_)
NatToString(n) ==
  IF n < 10 THEN <<Digits[n + 1]>>
  ELSE NatToString(n \div 10) \o <<Digits[(n % 10) + 1]>>

\* String(n) of a whole number
NumberToString(n) == IF n < 0 THEN <<"-">> \o NatToString(0 - n) ELSE NatToString(n)

\* String(n) of a number of hundredths that is not whole: 50 gives "0.5",
\* 5 gives "0.05"
DecimalToString(h) ==
  LET a == IF h < 0 THEN 0 - h ELSE h
      d1 == (a % 100) \div 10
      d2 == a % 10
  IN (IF h < 0 THEN <<"-">> ELSE <<>>) \o NatToString(a \div 100) \o <<".", Digits[d1 + 1]>>
     \o (IF d2 = 0 THEN <<>> ELSE <<Digits[d2 + 1]>>)

\* str.includes(part)
Includes(str, part) ==
  \E i \in 1..(Len(str) - Len(part) + 1) : SubSeq(str, i, i + Len(part) - 1) = part

\* String(v), and `${v}` in a template
RECURSIVE JsString(_)
RECURSIVE JoinValues(_, _, _)
\* Array.prototype.join(sep) on the elements of list from index i
JoinValues(list, i, sep) ==
  IF i > Len(list.e) THEN <<>>
  ELSE (IF list.e[i].val.k = "undef" THEN <<>> ELSE JsString(list.e[i].val))
       \o (IF i < Len(list.e) THEN sep ELSE <<>>)
       \o JoinValues(list, i + 1, sep)
JsString(v) ==
  CASE v.k = "str" -> v.s
    [] v.k = "num" -> NumberToString(v.n)
    [] v.k = "dec" -> DecimalToString(v.n)
    [] v.k = "list" -> JoinValues(v, 1, <<",">>)
    [] v.k = "obj" -> <<"[", "o", "b", "j", "e", "c", "t", " ", "O", "b", "j", "e", "c", "t", "]">>
    [] v.k = "fn" -> <<"f", "u", "n", "c", "t", "i", "o", "n", " ">> \o v.s
                     \o <<"(", ")", " ", "{", " ", "[", "n", "a", "t", "i", "v", "e", " ", "c", "o", "d", "e", "]", " ", "}">>
    [] OTHER -> <<"u", "n", "d", "e", "f", "i", "n", "e", "d">>

----------------------------------------------------------------------------
(* detectFormat and extractTokens                                          *)

K_dvalue == <<"$", "v", "a", "l", "u", "e">>
K_dtype == <<"$", "t", "y", "p", "e">>
K_value == <<"v", "a", "l", "u", "e">>
K_type == <<"t", "y", "p", "e">>

T_unknown == <<"u", "n", "k", "n", "o", "w", "n">>
T_dimension == <<"d", "i", "m", "e", "n", "s", "i", "o", "n">>
T_number == <<"n", "u", "m", "b", "e", "r">>
T_size == <<"s", "i", "z", "e">>
T_opacity == <<"o", "p", "a", "c", "i", "t", "y">>

\* key.startsWith('$') that never holds
StartsWithNothing(key) == FALSE
\* key.startsWith('$')
StartsWithDollar(key) == Len(key) > 0 /\ key[1] = "$"

\* The values of the entries of node that satisfy keep, in Object.keys order
RECURSIVE ChildrenFrom(_, _, _)
ChildrenFrom(node, i, skipDollar) ==
  IF i > Len(node.e) THEN <<>>
  ELSE (IF skipDollar /\ StartsWithDollar(node.e[i].key) THEN <<>> ELSE <<node.e[i].val>>)
       \o ChildrenFrom(node, i + 1, skipDollar)

\* The while loop of detectFormat on the stack stk (its last element is the
\* one stack.pop() takes)
RECURSIVE DetectLoop(_)
DetectLoop(stk) ==
  IF stk = <<>> THEN "dtcg"
  ELSE LET node == stk[Len(stk)]
           rest == Pop(stk)
       IN IF ~IsPlainObject(node) THEN DetectLoop(rest)
          ELSE IF HasKey(node, K_dvalue) THEN "dtcg"
          ELSE IF HasKey(node, K_value) /\ HasKey(node, K_type) THEN "style-dictionary"
          ELSE DetectLoop(rest \o ChildrenFrom(node, 1, TRUE))

detectFormat(data) == DetectLoop(<<data>>)

\* const groupType = node.$type || inheritedType
GroupTypeInheritedFirst(node, inheritedType) ==
  IF Truthy(inheritedType) THEN inheritedType ELSE Get(node, K_dtype)
GroupType(node, inheritedType) ==
  IF Truthy(Get(node, K_dtype)) THEN Get(node, K_dtype) ELSE inheritedType

\* The properties an object literal inherits from Object.prototype
ObjectPrototypeKeys ==
  { <<"c", "o", "n", "s", "t", "r", "u", "c", "t", "o", "r">>,
    <<"t", "o", "S", "t", "r", "i", "n", "g">>,
    <<"v", "a", "l", "u", "e", "O", "f">>,
    <<"t", "o", "L", "o", "c", "a", "l", "e", "S", "t", "r", "i", "n", "g">>,
    <<"h", "a", "s", "O", "w", "n", "P", "r", "o", "p", "e", "r", "t", "y">>,
    <<"i", "s", "P", "r", "o", "t", "o", "t", "y", "p", "e", "O", "f">>,
    <<"p", "r", "o", "p", "e", "r", "t", "y", "I", "s", "E", "n", "u", "m", "e", "r", "a", "b", "l", "e">>,
    <<"_", "_", "p", "r", "o", "t", "o", "_", "_">> }

\* A function object, such as Object.prototype.toString
Function(name) == [k |-> "fn", s |-> name, n |-> 0, e |-> <<>>]

\* SD_TYPE_ALIASES[rawType]: the property key is String(rawType); a key the
\* literal does not have is looked up on Object.prototype
SdTypeAlias(rawType) ==
  LET key == JsString(rawType)
  IN IF key = T_size THEN Str(T_dimension)
     ELSE IF key = T_opacity THEN Str(T_number)
     ELSE IF key = <<"_", "_", "p", "r", "o", "t", "o", "_", "_">> THEN Obj(<<>>)
     ELSE IF key \in ObjectPrototypeKeys THEN Function(key)
     ELSE Undefined

\* SD_TYPE_ALIASES[rawType] || rawType
SdType(rawType) == IF Truthy(SdTypeAlias(rawType)) THEN SdTypeAlias(rawType) ELSE rawType

\* [...currentPath, key]
ChildPathNotExtended(currentPath, key) == currentPath
ChildPath(currentPath, key) == Append(currentPath, key)

\* walk(node, currentPath, inheritedType): the records it pushes, in order
RECURSIVE Walk(_, _, _, _)
RECURSIVE WalkChildren(_, _, _, _, _)
WalkChildren(node, i, currentPath, inheritedType, fmt) ==
  IF i > Len(node.e) THEN <<>>
  ELSE (IF fmt = "dtcg" /\ StartsWithDollar(node.e[i].key) THEN <<>>
        ELSE Walk(node.e[i].val, ChildPath(currentPath, node.e[i].key), inheritedType, fmt))
       \o WalkChildren(node, i + 1, currentPath, inheritedType, fmt)
\* walk without the return of lines 72 and 87: a leaf's children are walked too
WalkThroughLeaves(node, currentPath, inheritedType, fmt) ==
  IF ~IsPlainObject(node) THEN <<>>
  ELSE IF fmt = "dtcg"
  THEN LET groupType == GroupType(node, inheritedType)
       IN (IF HasKey(node, K_dvalue)
           THEN <<[path |-> currentPath,
                   type |-> IF Truthy(groupType) THEN groupType ELSE Str(T_unknown),
                   value |-> Get(node, K_dvalue)]>>
           ELSE <<>>)
          \o WalkChildren(node, 1, currentPath, groupType, fmt)
  ELSE (IF HasKey(node, K_value) /\ HasKey(node, K_type)
        THEN <<[path |-> currentPath,
                type |-> SdType(Get(node, K_type)),
                value |-> Get(node, K_value)]>>
        ELSE <<>>)
       \o WalkChildren(node, 1, currentPath, inheritedType, fmt)
Walk(node, currentPath, inheritedType, fmt) ==
  IF ~IsPlainObject(node) THEN <<>>
  ELSE IF fmt = "dtcg"
  THEN LET groupType == GroupType(node, inheritedType)
       IN IF HasKey(node, K_dvalue)
          THEN <<[path |-> currentPath,
                  type |-> IF Truthy(groupType) THEN groupType ELSE Str(T_unknown),
                  value |-> Get(node, K_dvalue)]>>
          ELSE WalkChildren(node, 1, currentPath, groupType, fmt)
  ELSE IF HasKey(node, K_value) /\ HasKey(node, K_type)
       THEN <<[path |-> currentPath,
               type |-> SdType(Get(node, K_type)),
               value |-> Get(node, K_value)]>>
       ELSE WalkChildren(node, 1, currentPath, inheritedType, fmt)

extractTokens(data, fmt) == Walk(data, <<>>, Undefined, fmt)

Formats == {"dtcg", "style-dictionary"}

(* The documents: objects nested to MaxDepth below the root.  A node holds  *)
(* one of the reserved-key shapes below, then an optional child under "a"  *)
(* (any node one level shallower) and an optional child under "b" (a node  *)
(* without children).                                                      *)

MaxDepth == 2

Lit_x == Str(<<"x">>)

Shapes ==
  { <<>>,
    <<Entry(K_dtype, Str(T_color))>>,
    <<Entry(K_dtype, Str(T_number))>>,
    <<Entry(K_dvalue, Lit_x)>>,
    <<Entry(K_dtype, Str(T_dimension)), Entry(K_dvalue, Lit_x)>>,
    <<Entry(K_dtype, Str(<<>>)), Entry(K_dvalue, Lit_x)>>,
    <<Entry(K_value, Lit_x), Entry(K_type, Str(T_size))>>,
    <<Entry(K_value, Lit_x), Entry(K_type, Str(<<>>))>>,
    <<Entry(K_value, Lit_x)>> }

\* An array holding a leaf-shaped object: [{"$value": "x"}]
ArrayChild == List(<<Obj(<<Entry(K_dvalue, Lit_x)>>)>>)

Absent == {<<>>}
Under(key, nodes) == {<<Entry(key, c)>> : c \in nodes}

RECURSIVE NodesOfDepth(_)
NodesOfDepth(d) ==
  IF d = 0 THEN {Obj(s) : s \in Shapes} \cup {ArrayChild}
  ELSE {Obj(s \o ca \o cb) :
          s \in Shapes,
          ca \in Absent \cup Under(Seg_a, NodesOfDepth(d - 1)),
          cb \in Absent \cup Under(Seg_b, NodesOfDepth(0))}

Documents == {n \in NodesOfDepth(MaxDepth) : IsPlainObject(n)}

InitExtract ==
  /\ doc \in Documents
  /\ format = "none" /\ usedFormat = "none" /\ etokens = <<>>
  /\ ephase = "parsed"
  /\ ResolveOff /\ GenOff /\ ConvertOff /\ ImportOff

\* const format = detectFormat(data)
DetectFormat ==
  /\ ephase = "parsed"
  /\ format' = detectFormat(doc)
  /\ ephase' = "detected"
  /\ UNCHANGED <<doc, usedFormat, etokens, rvars, gvars, cvars, ivars>>

\* extractTokens(data, format), for either value of its format argument
ExtractTokens ==
  /\ ephase = "detected"
  /\ \E f \in Formats :
        /\ usedFormat' = f
        /\ etokens' = extractTokens(doc, f)
  /\ ephase' = "extracted"
  /\ UNCHANGED <<doc, format, rvars, gvars, cvars, ivars>>

NextExtract ==
  \/ DetectFormat
  \/ ExtractTokens

SpecExtract == InitExtract /\ [][NextExtract]_vars

----------------------------------------------------------------------------
(* Properties of detectFormat and extractTokens                            *)

\* Every object anywhere in the tree below (and including) v
RECURSIVE ObjectsIn(_)
ObjectsIn(v) ==
  (IF v.k = "obj" THEN {v} ELSE {})
  \cup UNION {ObjectsIn(v.e[i].val) : i \in 1..Len(v.e)}

HasDtcgLeaf(d) == \E n \in ObjectsIn(d) : HasKey(n, K_dvalue)
HasSdLeaf(d) == \E n \in ObjectsIn(d) : HasKey(n, K_value) /\ HasKey(n, K_type)

\* The node of d at path p
RECURSIVE NodeAt(_, _)
NodeAt(d, p) == IF p = <<>> THEN d ELSE NodeAt(Get(d, Head(p)), Tail(p))

\* The $type of the node at p if it has a non-empty one, otherwise that of
\* its nearest enclosing group that has one, otherwise 'unknown'
RECURSIVE NearestType(_, _)
NearestType(d, p) ==
  IF Truthy(Get(NodeAt(d, p), K_dtype)) THEN Get(NodeAt(d, p), K_dtype)
  ELSE IF p = <<>> THEN Str(T_unknown)
  ELSE NearestType(d, SubSeq(p, 1, Len(p) - 1))

\* The root node has the leaf shape of the dialect
RootIsLeaf(d, fmt) ==
  IF fmt = "dtcg" THEN HasKey(d, K_dvalue)
  ELSE HasKey(d, K_value) /\ HasKey(d, K_type)

\* C3: detectFormat returns 'dtcg' for every document with a "$value" key on
\* any node, 'style-dictionary' for every document whose only leaf shape is
\* a node with both "value" and "type", and 'dtcg' when there is no leaf
\* shape at all.
C3_DetectByExistence ==
  ephase \in {"detected", "extracted"} =>
    /\ HasDtcgLeaf(doc) => format = "dtcg"
    /\ (~HasDtcgLeaf(doc) /\ HasSdLeaf(doc)) => format = "style-dictionary"
    /\ (~HasDtcgLeaf(doc) /\ ~HasSdLeaf(doc)) => format = "dtcg"

\* C4: in DTCG extraction the type of every record is the leaf's own $type,
\* otherwise the $type of its nearest enclosing group that has one,
\* otherwise 'unknown'; so a $type acts on its own subtree only.
C4_NearestTypeWins ==
  (ephase = "extracted" /\ usedFormat = "dtcg") =>
    \A i \in 1..Len(etokens) : etokens[i].type = NearestType(doc, etokens[i].path)

\* A DTCG extraction of a typed root with a group of another type, in which
\* one leaf has its own type and its sibling takes the group's
C4_Witness ==
  /\ ephase = "extracted" /\ usedFormat = "dtcg"
  /\ Get(doc, K_dtype) = Str(T_number)
  /\ Get(Get(doc, Seg_a), K_dtype) = Str(T_color)
  /\ \E i, j \in 1..Len(etokens) :
        /\ etokens[i].path = <<Seg_a, Seg_a>> /\ etokens[i].type = Str(T_dimension)
        /\ etokens[j].path = <<Seg_a, Seg_b>> /\ etokens[j].type = Str(T_color)

\* C9 as stated: every record produced by extractTokens has a non-empty path.
C9_PathNeverEmpty ==
  ephase = "extracted" => \A i \in 1..Len(etokens) : etokens[i].path # <<>>

\* C9, amended: every record has a non-empty path unless the root itself has
\* the leaf shape of the dialect used; then the root is the only record and
\* its path is empty.
C9_PathEmptyOnlyForRootLeaf ==
  ephase = "extracted" =>
    IF RootIsLeaf(doc, usedFormat)
    THEN Len(etokens) = 1 /\ etokens[1].path = <<>>
    ELSE \A i \in 1..Len(etokens) : etokens[i].path # <<>>

\* An extraction of a document whose root is no leaf that produced records
\* at two depths
C9_Witness ==
  /\ ephase = "extracted" /\ ~RootIsLeaf(doc, usedFormat)
  /\ \E i, j \in 1..Len(etokens) :
        Len(etokens[i].path) = 1 /\ Len(etokens[j].path) = 2

\* C10: every record produced by extractTokens, in either dialect, has a
\* non-empty type tag.
C10_TypeNeverEmpty ==
  ephase = "extracted" =>
    \A i \in 1..Len(etokens) : etokens[i].type.k = "str" /\ etokens[i].type.s # <<>>

----------------------------------------------------------------------------
(* convertValue                                                            *)

K_colorSpace == <<"c", "o", "l", "o", "r", "S", "p", "a", "c", "e">>
K_components == <<"c", "o", "m", "p", "o", "n", "e", "n", "t", "s">>
K_alpha == <<"a", "l", "p", "h", "a">>
K_unit == <<"u", "n", "i", "t">>

T_fontFamily == <<"f", "o", "n", "t", "F", "a", "m", "i", "l", "y">>
T_fontWeight == <<"f", "o", "n", "t", "W", "e", "i", "g", "h", "t">>
T_duration == <<"d", "u", "r", "a", "t", "i", "o", "n">>
T_cubicBezier == <<"c", "u", "b", "i", "c", "B", "e", "z", "i", "e", "r">>
T_typography == <<"t", "y", "p", "o", "g", "r", "a", "p", "h", "y">>
T_shadow == <<"s", "h", "a", "d", "o", "w">>
T_border == <<"b", "o", "r", "d", "e", "r">>

GENERIC_FONT_FAMILIES ==
  { <<"s", "e", "r", "i", "f">>, <<"s", "a", "n", "s", "-", "s", "e", "r", "i", "f">>, <<"m", "o", "n", "o", "s", "p", "a", "c", "e">>, <<"c", "u", "r", "s", "i", "v", "e">>, <<"f", "a", "n", "t", "a", "s", "y">>,
    <<"s", "y", "s", "t", "e", "m", "-", "u", "i">>, <<"u", "i", "-", "s", "e", "r", "i", "f">>, <<"u", "i", "-", "s", "a", "n", "s", "-", "s", "e", "r", "i", "f">>, <<"u", "i", "-", "m", "o", "n", "o", "s", "p", "a", "c", "e">>, <<"u", "i", "-", "r", "o", "u", "n", "d", "e", "d">>,
    <<"m", "a", "t", "h">>, <<"e", "m", "o", "j", "i">>, <<"f", "a", "n", "g", "s", "o", "n", "g">> }

\* typeof value === 'object' && value !== null (an array is an object too)
IsObjectLike(v) == v.k \in {"obj", "list"}

HexDigits == <<"0", "1", "2", "3", "4", "5", "6", "7", "8", "9", "a", "b", "c", "d", "e", "f">>

RECURSIVE NatToHex(_)
NatToHex(n) ==
  IF n < 16 THEN <<HexDigits[n + 1]>>
  ELSE NatToHex(n \div 16) \o <<HexDigits[(n % 16) + 1]>>

\* Math.floor(n * 255) in the place of Math.round
Floor255(v) == (Hundredths(v) * 255) \div 100

\* Math.round(n * 255): the nearest integer, a half rounded up
Round255(v) == (Hundredths(v) * 255 + 50) \div 100

\* String(Math.round(n * 255))
Channel255(v) == IF IsNumber(v) THEN NumberToString(Round255(v)) ELSE <<"N", "a", "N">>

\* Number.prototype.toString(16)
IntToHex(n) == IF n < 0 THEN <<"-">> \o NatToHex(0 - n) ELSE NatToHex(n)

\* Math.round(n * 255).toString(16).padStart(2, '0')
toHex(v) ==
  LET digits == IF IsNumber(v) THEN IntToHex(Round255(v)) ELSE <<"N", "a", "N">>
  IN (IF Len(digits) < 2 THEN <<"0">> ELSE <<>>) \o digits

\* components[i], undefined past the end
Component(components, i) ==
  IF i <= Len(components.e) THEN components.e[i].val ELSE Undefined

\* alpha !== undefined && alpha < 1
AlphaBelowOne(alpha) == IsNumber(alpha) /\ Hundredths(alpha) < 100

convertColor(value) ==
  IF value.k = "str" THEN value.s
  ELSE IF IsObjectLike(value)
  THEN LET colorSpace == Get(value, K_colorSpace)
           components == Get(value, K_components)
           alpha == Get(value, K_alpha)
           r == Component(components, 1)
           g == Component(components, 2)
           b == Component(components, 3)
       IN IF colorSpace = Str(<<"s", "r", "g", "b">>) /\ components.k = "list"
          THEN IF AlphaBelowOne(alpha)
               THEN <<"r", "g", "b", "a", "(">> \o Channel255(r) \o <<",", " ">> \o Channel255(g) \o <<",", " ">>
                    \o Channel255(b) \o <<",", " ">> \o JsString(alpha) \o <<")">>
               ELSE <<"#">> \o toHex(r) \o toHex(g) \o toHex(b)
          ELSE IF Truthy(colorSpace) /\ components.k = "list"
          THEN <<"c", "o", "l", "o", "r", "(">> \o JsString(colorSpace) \o <<" ">> \o JoinValues(components, 1, <<" ">>)
               \o (IF AlphaBelowOne(alpha) THEN <<" ", "/", " ">> \o JsString(alpha) ELSE <<>>)
               \o <<")">>
          ELSE JsString(value)
  ELSE JsString(value)

\* convertDimension and convertDuration have the same body
convertDimension(value) ==
  IF value.k = "str" THEN value.s
  ELSE IF IsObjectLike(value)
  THEN JsString(Get(value, K_value)) \o JsString(Get(value, K_unit))
  ELSE JsString(value)

convertDuration(value) == convertDimension(value)

\* value.map(f => GENERIC_FONT_FAMILIES.has(f) ? f : `"${f}"`)
FontFamilyParts(value) ==
  List([i \in 1..Len(value.e) |->
          LET f == value.e[i].val
          IN IF f.k = "str" /\ f.s \in GENERIC_FONT_FAMILIES THEN f
             ELSE Str(<<"\"">> \o JsString(f) \o <<"\"">>)])

convertFontFamily(value) ==
  IF value.k = "str" THEN value.s
  ELSE IF value.k = "list"
  THEN <<"(">> \o JoinValues(FontFamilyParts(value), 1, <<",", " ">>) \o <<")">>
  ELSE JsString(value)

convertCubicBezier(value) ==
  IF value.k = "list"
  THEN <<"c", "u", "b", "i", "c", "-", "b", "e", "z", "i", "e", "r", "(">> \o JoinValues(value, 1, <<",", " ">>) \o <<")">>
  ELSE JsString(value)

inferSubType(key, parentType) ==
  LET keyLower == toLowerCase(key)
  IN IF Includes(keyLower, <<"c", "o", "l", "o", "r">>) THEN T_color
     ELSE IF Includes(keyLower, <<"f", "a", "m", "i", "l", "y">>) THEN T_fontFamily
     ELSE IF Includes(keyLower, <<"w", "e", "i", "g", "h", "t">>) THEN T_fontWeight
     ELSE IF \/ Includes(keyLower, <<"s", "i", "z", "e">>) \/ Includes(keyLower, <<"w", "i", "d", "t", "h">>)
             \/ Includes(keyLower, <<"h", "e", "i", "g", "h", "t">>) \/ Includes(keyLower, <<"s", "p", "a", "c", "i", "n", "g">>)
             \/ Includes(keyLower, <<"o", "f", "f", "s", "e", "t">>) \/ Includes(keyLower, <<"b", "l", "u", "r">>)
             \/ Includes(keyLower, <<"s", "p", "r", "e", "a", "d">>) THEN T_dimension
     ELSE IF keyLower = <<"l", "i", "n", "e", "h", "e", "i", "g", "h", "t">> THEN T_number
     ELSE T_unknown

\* The key of the i-th entry of Object.entries(value): an array's are its indices
EntryKey(value, i) == IF value.k = "list" THEN NatToString(i - 1) ELSE value.e[i].key

RECURSIVE convertValue(_, _)
RECURSIVE CompositeEntries(_, _, _)
\* Object.entries(value).map(...) of convertComposite, from entry i
CompositeEntries(value, type, i) ==
  IF i > Len(value.e) THEN <<>>
  ELSE <<<<" ", " ">> \o transformCamelCaseToDash(EntryKey(value, i)) \o <<":", " ">>
         \o convertValue(value.e[i].val, Str(inferSubType(EntryKey(value, i), type)))
         \o <<",">>>>
       \o CompositeEntries(value, type, i + 1)

convertComposite(value, type) ==
  IF ~IsObjectLike(value) THEN JsString(value)
  ELSE <<"(", "\n">> \o JoinWith(CompositeEntries(value, type, 1), <<"\n">>) \o <<"\n", ")">>

convertValue(value, type) ==
  CASE type = Str(T_color) -> convertColor(value)
    [] type = Str(T_dimension) -> convertDimension(value)
    [] type = Str(T_fontFamily) -> convertFontFamily(value)
    [] type = Str(T_fontWeight) -> JsString(value)
    [] type = Str(T_duration) -> convertDuration(value)
    [] type = Str(T_cubicBezier) -> convertCubicBezier(value)
    [] type = Str(T_number) -> JsString(value)
    [] type \in {Str(T_typography), Str(T_shadow), Str(T_border)} -> convertComposite(value, type)
    [] OTHER -> JsString(value)

----------------------------------------------------------------------------
(* generateScss                                                            *)

\* token.path.map(sanitizeName)
SanitizedPath(token) == [i \in 1..Len(token.path) |-> sanitizeName(token.path[i])]

\* token.path.map(sanitizeName).join('-')
VariableName(token) == JoinWith(SanitizedPath(token), <<"-">>)

\* `$${name}: ${value};`
Declaration(name, value) == <<"$">> \o name \o <<":", " ">> \o value \o <<";">>

\* The lines array of generateScssVariables after the tokens from index i
RECURSIVE VariableLinesFrom(_, _)
VariableLinesFrom(toks, i) ==
  IF i > Len(toks) THEN <<>>
  ELSE <<Declaration(VariableName(toks[i]), convertValue(toks[i].value, toks[i].type))>>
       \o VariableLinesFrom(toks, i + 1)

\* generateScssVariables that skips a token whose name an earlier token has
VariableLinesDeduplicated(toks) ==
  LET all == VariableLinesFrom(toks, 1)
      kept == SelectSeq([i \in 1..Len(toks) |-> i],
                        LAMBDA i : \A j \in 1..(i - 1) :
                                      VariableName(toks[j]) # VariableName(toks[i]))
  IN [k \in 1..Len(kept) |-> all[kept[k]]]
VariableLines(toks) == VariableLinesFrom(toks, 1)

\* lines.join('\n') + '\n'
generateScssVariables(toks) == JoinWith(VariableLines(toks), <<"\n">>) \o <<"\n">>

K_token == <<"_", "_", "t", "o", "k", "e", "n">>

\* A reference to the token object gtokens[i]
TokenRef(i) == [k |-> "tokref", s |-> <<>>, n |-> i, e |-> <<>>]

\* node[key] = val: a new key goes last, an existing key keeps its place
SetProp(node, key, val) ==
  IF HasKey(node, key)
  THEN [node EXCEPT !.e = [i \in 1..Len(node.e) |->
                             IF node.e[i].key = key THEN Entry(key, val) ELSE node.e[i]]]
  ELSE [node EXCEPT !.e = Append(node.e, Entry(key, val))]

\* Lines 294-301 for the token of index i: keys are the sanitized segments
\* before the last, leafKey the sanitized last segment
RECURSIVE InsertToken(_, _, _, _)
InsertToken(node, keys, leafKey, i) ==
  IF keys = <<>> THEN SetProp(node, leafKey, Obj(<<Entry(K_token, TokenRef(i))>>))
  ELSE LET child == IF HasKey(node, Head(keys)) THEN Get(node, Head(keys)) ELSE Obj(<<>>)
       IN SetProp(node, Head(keys), InsertToken(child, Tail(keys), leafKey, i))

\* The tree of generateScssMap after the tokens from index i (lines 293-302)
RECURSIVE BuildTree(_, _, _)
BuildTree(node, toks, i) ==
  IF i > Len(toks) THEN node
  ELSE LET sp == SanitizedPath(toks[i])
       IN BuildTree(InsertToken(node, SubSeq(sp, 1, Len(sp) - 1), sp[Len(sp)], i),
                    toks, i + 1)

\* '  '.repeat(n)
RECURSIVE Indent(_)
Indent(n) == IF n <= 0 THEN <<>> ELSE <<" ", " ">> \o Indent(n - 1)

\* convertValue(token.value, token.type) for token = child.__token
TokenValue(child, toks) ==
  LET i == Get(child, K_token).n
  IN convertValue(toks[i].value, toks[i].type)

RECURSIVE renderMapNode(_, _, _)
RECURSIVE MapEntries(_, _, _, _)
\* The entries array of renderMapNode from the i-th entry of node
MapEntries(node, depth, toks, i) ==
  IF i > Len(node.e) THEN <<>>
  ELSE LET key == node.e[i].key
           child == node.e[i].val
       IN <<Indent(depth) \o key \o <<":", " ">>
            \o (IF Truthy(Get(child, K_token)) THEN TokenValue(child, toks)
                ELSE renderMapNode(child, depth + 1, toks))
            \o <<",">>>>
          \o MapEntries(node, depth, toks, i + 1)
renderMapNode(node, depth, toks) ==
  <<"(", "\n">> \o JoinWith(MapEntries(node, depth, toks, 1), <<"\n">>) \o <<"\n">>
  \o Indent(depth - 1) \o <<")">>

\* The lines array of generateScssMap from the i-th entry of tree (305-314)
RECURSIVE MapLines(_, _, _)
MapLines(t, toks, i) ==
  IF i > Len(t.e) THEN <<>>
  ELSE LET topKey == t.e[i].key
           subtree == t.e[i].val
       IN <<Declaration(topKey,
                        IF Truthy(Get(subtree, K_token)) THEN TokenValue(subtree, toks)
                        ELSE renderMapNode(subtree, 1, toks))>>
          \o MapLines(t, toks, i + 1)

\* lines.join('\n\n') + '\n'
generateScssMap(t, toks) == JoinWith(MapLines(t, toks, 1), <<"\n", "\n">>) \o <<"\n">>

\* The tokens the rendering of node reaches, with the keys leading to each:
\* the calls of convertValue of lines 308 and 326, in order
RECURSIVE RenderedIn(_, _, _)
RenderedIn(node, at, i) ==
  IF i > Len(node.e) THEN <<>>
  ELSE LET key == node.e[i].key
           child == node.e[i].val
       IN (IF Truthy(Get(child, K_token))
           THEN <<[tok |-> Get(child, K_token).n, at |-> Append(at, key)]>>
           ELSE RenderedIn(child, Append(at, key), 1))
          \o RenderedIn(node, at, i + 1)

Modes == {"variables", "map"}

MaxGenTokens == 3

Seg_fS == <<"f", "S">>
Seg_f_s == <<"f", "-", "s">>

GenPaths ==
  { <<>>, <<Seg_a>>, <<Seg_b>>, <<Seg_a, Seg_b>>, <<Seg_a, Seg_fS>>, <<Seg_a, Seg_f_s>>,
    <<Seg_a, Seg_b, Seg_a>> }

GenValues ==
  { [value |-> Lit_x, type |-> Str(T_color)],
    [value |-> Obj(<<Entry(K_value, Num(8)), Entry(K_unit, Str(<<"p", "x">>))>>),
     type |-> Str(T_dimension)] }

GenTokens == {[path |-> p, type |-> v.type, value |-> v.value] : p \in GenPaths, v \in GenValues}

\* generateScssMap is given no token with an empty path: it would read
\* token.path[-1]
InitGen ==
  /\ gtokens \in TokenArrays(GenTokens, MaxGenTokens)
  /\ mode \in Modes
  /\ mode = "map" => \A i \in 1..Len(gtokens) : gtokens[i].path # <<>>
  /\ lines = <<>> /\ tree = <<>> /\ contents = <<>> /\ rendered = <<>>
  /\ gphase = "ready"
  /\ ResolveOff /\ ExtractOff /\ ConvertOff /\ ImportOff

\* generateScss(tokens, mode): lines 271-278
GenerateScss ==
  /\ gphase = "ready"
  /\ gphase' = "done"
  /\ IF Len(gtokens) = 0
     THEN /\ contents' = <<>>
          /\ UNCHANGED <<lines, tree, rendered>>
     ELSE IF mode = "map"
     THEN LET t == BuildTree(Obj(<<>>), gtokens, 1)
          IN /\ tree' = t
             /\ lines' = MapLines(t, gtokens, 1)
             /\ contents' = generateScssMap(t, gtokens)
             /\ rendered' = RenderedIn(t, <<>>, 1)
     ELSE /\ lines' = VariableLines(gtokens)
          /\ contents' = generateScssVariables(gtokens)
          /\ rendered' = [i \in 1..Len(gtokens) |-> [tok |-> i, at |-> SanitizedPath(gtokens[i])]]
          /\ UNCHANGED tree
  /\ UNCHANGED <<gtokens, mode, rvars, evars, cvars, ivars>>

NextGen == GenerateScss

SpecGen == InitGen /\ [][NextGen]_vars

----------------------------------------------------------------------------
(* Properties of generateScss                                              *)

\* C5: in 'map' mode there is one top-level declaration per distinct
\* top-level path segment, and every token of the input is rendered exactly
\* once, at the position its sanitized path gives.
C5_MapRendersEveryToken ==
  (gphase = "done" /\ mode = "map") =>
    /\ Len(lines) = Cardinality({gtokens[i].path[1] : i \in 1..Len(gtokens)})
    /\ \A i \in 1..Len(gtokens) :
          /\ Cardinality({j \in 1..Len(rendered) : rendered[j].tok = i}) = 1
          /\ \A j \in 1..Len(rendered) :
                rendered[j].tok = i => rendered[j].at = SanitizedPath(gtokens[i])

\* C6: in 'variables' mode a non-empty array gives one declaration per token,
\* in order, named by the sanitized segments joined with dashes and valued by
\* convertValue, joined by newlines with a trailing newline; nothing is
\* deduplicated; an empty array gives the empty string in both modes.
C6_OneDeclarationPerToken ==
  gphase = "done" =>
    /\ Len(gtokens) = 0 => contents = <<>>
    /\ (Len(gtokens) > 0 /\ mode = "variables") =>
          /\ Len(lines) = Len(gtokens)
          /\ \A i \in 1..Len(gtokens) :
                lines[i] = <<"$">> \o JoinWith(SanitizedPath(gtokens[i]), <<"-">>) \o <<":", " ">>
                           \o convertValue(gtokens[i].value, gtokens[i].type) \o <<";">>
          /\ contents = JoinWith(lines, <<"\n">>) \o <<"\n">>
          /\ contents[Len(contents)] = "\n"
          /\ Len(contents) > 1 => contents[Len(contents) - 1] # "\n"

\* 'variables' mode has run on an array in which two tokens of different
\* paths have the same name
C6_Witness ==
  /\ gphase = "done" /\ mode = "variables"
  /\ \E i, j \in 1..Len(gtokens) :
        /\ i < j
        /\ gtokens[i].path # gtokens[j].path
        /\ VariableName(gtokens[i]) = VariableName(gtokens[j])

----------------------------------------------------------------------------
(* Style Dictionary type tags.  The documents: the same nesting as above,  *)
(* with leaves of several type tags, one of them a name that every object  *)
(* inherits, a group that has a "type" key but no "value", and a DTCG leaf *)
(* whose $type is 'size'.                                                  *)

T_constructor == <<"c", "o", "n", "s", "t", "r", "u", "c", "t", "o", "r">>

TagShapes ==
  { <<>>,
    <<Entry(K_type, Str(T_color))>>,
    <<Entry(K_dtype, Str(T_size)), Entry(K_dvalue, Lit_x)>>,
    <<Entry(K_value, Lit_x), Entry(K_type, Str(T_size))>>,
    <<Entry(K_value, Lit_x), Entry(K_type, Str(T_opacity))>>,
    <<Entry(K_value, Lit_x), Entry(K_type, Str(T_color))>>,
    <<Entry(K_value, Lit_x), Entry(K_type, Str(T_constructor))>>,
    <<Entry(K_value, Lit_x)>> }

RECURSIVE TagNodes(_)
TagNodes(d) ==
  IF d = 0 THEN {Obj(s) : s \in TagShapes}
  ELSE {Obj(s \o ca \o cb) :
          s \in TagShapes,
          ca \in Absent \cup Under(Seg_a, TagNodes(d - 1)),
          cb \in Absent \cup Under(Seg_b, TagNodes(0))}

TagDocuments == TagNodes(MaxDepth)

InitExtractTags ==
  /\ doc \in TagDocuments
  /\ format = "none" /\ usedFormat = "none" /\ etokens = <<>>
  /\ ephase = "parsed"
  /\ ResolveOff /\ GenOff /\ ConvertOff /\ ImportOff

SpecExtractTags == InitExtractTags /\ [][NextExtract]_vars

\* The paths of the objects of the tree v, which is at path p
RECURSIVE PathsBelow(_, _)
PathsBelow(v, p) ==
  IF v.k # "obj" THEN {}
  ELSE {p} \cup UNION {PathsBelow(v.e[i].val, Append(p, v.e[i].key)) : i \in 1..Len(v.e)}

\* The node has both a "value" and a "type" key
IsSdLeaf(n) == IsPlainObject(n) /\ HasKey(n, K_value) /\ HasKey(n, K_type)

\* No node above the path p is a Style Dictionary leaf
NoSdLeafAbove(d, p) ==
  \A n \in 0..(Len(p) - 1) : ~IsSdLeaf(NodeAt(d, SubSeq(p, 1, n)))

\* The catalog entry a Style Dictionary type tag stands for
NormalizedTag(tag) ==
  IF tag = Str(T_size) THEN Str(T_dimension)
  ELSE IF tag = Str(T_opacity) THEN Str(T_number)
  ELSE tag

\* C11: in Style Dictionary extraction the records are the nodes that have
\* both a "value" and a "type" key (and lie below no other such node); the
\* type of a record is 'dimension' when the node's own tag is 'size',
\* 'number' when it is 'opacity', and the tag itself otherwise, whatever the
\* nodes above it hold; DTCG records keep their $type as it is.
C11_SdOwnTypeOnly ==
  ephase = "extracted" =>
    /\ usedFormat = "style-dictionary" =>
          /\ \A i \in 1..Len(etokens) :
                /\ IsSdLeaf(NodeAt(doc, etokens[i].path))
                /\ etokens[i].type = NormalizedTag(Get(NodeAt(doc, etokens[i].path), K_type))
          /\ \A p \in PathsBelow(doc, <<>>) :
                (IsSdLeaf(NodeAt(doc, p)) /\ NoSdLeafAbove(doc, p)) =>
                   \E i \in 1..Len(etokens) : etokens[i].path = p
    /\ usedFormat = "dtcg" =>
          \A i \in 1..Len(etokens) : etokens[i].type = NearestType(doc, etokens[i].path)

----------------------------------------------------------------------------
(* Keys.  The documents: nodes nested to MaxDepth whose children sit under *)
(* the keys "a" and "$m" (a metadata key), any node one level shallower,   *)
(* and under the keys "b" and "a.b" (a key that holds a period), a leaf of *)
(* either dialect; a leaf may have children of its own.                    *)

Seg_dm == <<"$", "m">>

KeyLeaves ==
  { <<Entry(K_dvalue, Lit_x)>>,
    <<Entry(K_value, Lit_x), Entry(K_type, Str(T_size))>> }

KeyShapes == {<<>>} \cup KeyLeaves

RECURSIVE KeyNodes(_)
KeyNodes(d) ==
  IF d = 0 THEN {Obj(s) : s \in KeyShapes}
  ELSE {Obj(s \o ca \o cb) :
          s \in KeyShapes,
          ca \in Absent \cup Under(Seg_a, KeyNodes(d - 1)) \cup Under(Seg_dm, KeyNodes(d - 1)),
          cb \in Absent \cup Under(Seg_b, {Obj(s) : s \in KeyLeaves})
                       \cup Under(Seg_a_b, {Obj(s) : s \in KeyLeaves})}

KeyDocuments == KeyNodes(MaxDepth)

InitExtractKeys ==
  /\ doc \in KeyDocuments
  /\ format = "none" /\ usedFormat = "none" /\ etokens = <<>>
  /\ ephase = "parsed"
  /\ ResolveOff /\ GenOff /\ ConvertOff /\ ImportOff

SpecExtractKeys == InitExtractKeys /\ [][NextExtract]_vars

\* The node has a "$value" key
IsDtcgLeaf(n) == IsPlainObject(n) /\ HasKey(n, K_dvalue)

\* The leaf shape of the dialect
IsLeafOf(n, fmt) == IF fmt = "dtcg" THEN IsDtcgLeaf(n) ELSE IsSdLeaf(n)

\* Some segment of the path p begins with '$'
HasDollarSegment(p) == \E j \in 1..Len(p) : Len(p[j]) > 0 /\ p[j][1] = "$"

\* No node above the path p has the leaf shape of the dialect
NoLeafAbove(d, p, fmt) ==
  \A n \in 0..(Len(p) - 1) : ~IsLeafOf(NodeAt(d, SubSeq(p, 1, n)), fmt)

\* C12: in DTCG extraction no record's path has a segment that begins with
\* '$', and the records are exactly the "$value" nodes that lie under no
\* '$'-prefixed key (and below no other leaf): nothing under a '$'-prefixed
\* key is emitted.
C12_DollarKeysAreMetadata ==
  (ephase = "extracted" /\ usedFormat = "dtcg") =>
    /\ \A i \in 1..Len(etokens) : ~HasDollarSegment(etokens[i].path)
    /\ {etokens[i].path : i \in 1..Len(etokens)} =
         {p \in PathsBelow(doc, <<>>) :
            IsDtcgLeaf(NodeAt(doc, p)) /\ NoLeafAbove(doc, p, "dtcg") /\ ~HasDollarSegment(p)}

\* A DTCG extraction that produced a record from a document holding a
\* "$value" node under the key "$m", two levels below it
C12_Witness ==
  /\ ephase = "extracted" /\ usedFormat = "dtcg"
  /\ Len(etokens) > 0
  /\ HasKey(doc, Seg_dm)
  /\ IsDtcgLeaf(Get(Get(doc, Seg_dm), Seg_a))

----------------------------------------------------------------------------
(* convertValue applied to colors and to composite values                  *)

MaxFields == 2

T_srgb == <<"s", "r", "g", "b">>

ColorChannels == {Num(0), Num(1), Decimal(50), Decimal(4), Decimal(80)}

\* alpha: undefined when the key is absent
ColorAlphas == {Undefined, Num(0), Decimal(50), Num(1), Num(2)}

SrgbColor(r, g, b, alpha) ==
  Obj(<<Entry(K_colorSpace, Str(T_srgb)), Entry(K_components, List(<<r, g, b>>))>>
      \o (IF alpha = Undefined THEN <<>> ELSE <<Entry(K_alpha, alpha)>>))

ColorInputs ==
  {[value |-> SrgbColor(r, g, b, alpha), type |-> Str(T_color)] :
     r \in ColorChannels, g \in ColorChannels, b \in ColorChannels, alpha \in ColorAlphas}
  \cup {[value |-> Lit_x, type |-> Str(T_color)],
        [value |-> Obj(<<Entry(K_colorSpace, Str(<<"d", "i", "s", "p", "l", "a", "y", "-", "p", "3">>)),
                         Entry(K_components, List(<<Num(1), Num(0), Decimal(50)>>)),
                         Entry(K_alpha, Decimal(50))>>),
         type |-> Str(T_color)]}

FieldNames ==
  { <<"c", "o", "l", "o", "r">>, <<"t", "e", "x", "t", "C", "o", "l", "o", "r">>, <<"f", "o", "n", "t", "F", "a", "m", "i", "l", "y">>, <<"f", "o", "n", "t", "W", "e", "i", "g", "h", "t">>, <<"f", "o", "n", "t", "S", "i", "z", "e">>,
    <<"l", "i", "n", "e", "H", "e", "i", "g", "h", "t">>, <<"L", "I", "N", "E", "H", "E", "I", "G", "H", "T">>, <<"l", "e", "t", "t", "e", "r", "S", "p", "a", "c", "i", "n", "g">>, <<"o", "f", "f", "s", "e", "t", "X">>, <<"b", "l", "u", "r">>,
    <<"s", "p", "r", "e", "a", "d">>, <<"w", "i", "d", "t", "h">>, <<"s", "t", "y", "l", "e">>, <<"x">> }

FieldValues ==
  {Lit_x, Num(2), Obj(<<Entry(K_value, Num(1)), Entry(K_unit, Str(<<"p", "x">>))>>)}

\* Objects of one to max fields with different names
CompositeValues(max) ==
  {Obj(es) : es \in {f \in UNION {[1..n -> {Entry(k, v) : k \in FieldNames, v \in FieldValues}] :
                                      n \in 1..max} :
                       \A i, j \in DOMAIN f : i # j => f[i].key # f[j].key}}

CompositeTypes == {Str(T_typography), Str(T_shadow), Str(T_border)}

CompositeInputs ==
  {[value |-> v, type |-> t] : v \in CompositeValues(MaxFields), t \in CompositeTypes}

InitConvert ==
  /\ \E in \in ColorInputs \cup CompositeInputs : cvalue = in.value /\ ctype = in.type
  /\ converted = <<>> /\ subTypes = <<>>
  /\ cphase = "ready"
  /\ ResolveOff /\ ExtractOff /\ GenOff /\ ImportOff

\* The calls of inferSubType made by convertComposite (line 244), in order
SubTypesOf(value, type) ==
  IF type \in CompositeTypes /\ IsObjectLike(value)
  THEN [i \in 1..Len(value.e) |-> inferSubType(EntryKey(value, i), type)]
  ELSE <<>>

\* convertValue(value, type)
ConvertValue ==
  /\ cphase = "ready"
  /\ converted' = convertValue(cvalue, ctype)
  /\ subTypes' = SubTypesOf(cvalue, ctype)
  /\ cphase' = "done"
  /\ UNCHANGED <<cvalue, ctype, rvars, evars, gvars, ivars>>

NextConvert == ConvertValue

SpecConvert == InitConvert /\ [][NextConvert]_vars

\* The integer nearest to 255 times a channel of h hundredths, a half going up
NearestOf255(h) == CHOOSE k \in 0..255 : 100 * k - 50 <= 255 * h /\ 255 * h < 100 * k + 50

\* Two lowercase hexadecimal digits
TwoHex(n) == <<HexDigits[(n \div 16) + 1], HexDigits[(n % 16) + 1]>>

\* An object with colorSpace 'srgb' and three channels in the unit interval
IsUnitSrgb(v) ==
  /\ v.k = "obj"
  /\ Get(v, K_colorSpace) = Str(T_srgb)
  /\ Get(v, K_components).k = "list"
  /\ Len(Get(v, K_components).e) = 3
  /\ \A i \in 1..3 : LET c == Get(v, K_components).e[i].val
                     IN IsNumber(c) /\ Hundredths(c) >= 0 /\ Hundredths(c) <= 100

\* C13: for an 'srgb' color object with three channels in the unit interval
\* convertValue returns '#' and the two-digit lowercase hex of
\* round(255 * channel) per channel when alpha is absent or at least 1, and
\* otherwise 'rgba(R, G, B, alpha)' with the rounded channels in decimal and
\* alpha as it is, alpha 0 included.
C13_SrgbColor ==
  (cphase = "done" /\ ctype = Str(T_color) /\ IsUnitSrgb(cvalue)) =>
    LET alpha == Get(cvalue, K_alpha)
        ch(i) == NearestOf255(Hundredths(Get(cvalue, K_components).e[i].val))
    IN IF alpha = Undefined \/ Hundredths(alpha) >= 100
       THEN converted = <<"#">> \o TwoHex(ch(1)) \o TwoHex(ch(2)) \o TwoHex(ch(3))
       ELSE converted = <<"r", "g", "b", "a", "(">> \o NatToString(ch(1)) \o <<",", " ">> \o NatToString(ch(2))
                        \o <<",", " ">> \o NatToString(ch(3)) \o <<",", " ">> \o JsString(alpha) \o <<")">>

\* The color with channels 0.5, 0 and 0.04 and alpha 0 has been converted
C13_Witness ==
  /\ cphase = "done"
  /\ cvalue = SrgbColor(Decimal(50), Num(0), Decimal(4), Num(0))
  /\ converted = <<"r", "g", "b", "a", "(", "1", "2", "8", ",", " ", "0", ",", " ", "1", "0", ",", " ", "0", ")">>

\* The sub-type the rules give a field name, compared in lower case
RuleSubType(name) ==
  LET lower == toLowerCase(name)
  IN IF lower = <<"l", "i", "n", "e", "h", "e", "i", "g", "h", "t">> THEN T_number
     ELSE IF Includes(lower, <<"c", "o", "l", "o", "r">>) THEN T_color
     ELSE IF Includes(lower, <<"f", "a", "m", "i", "l", "y">>) THEN T_fontFamily
     ELSE IF Includes(lower, <<"w", "e", "i", "g", "h", "t">>) THEN T_fontWeight
     ELSE IF \E part \in {<<"s", "i", "z", "e">>, <<"w", "i", "d", "t", "h">>, <<"h", "e", "i", "g", "h", "t">>, <<"s", "p", "a", "c", "i", "n", "g">>, <<"o", "f", "f", "s", "e", "t">>,
                          <<"b", "l", "u", "r">>, <<"s", "p", "r", "e", "a", "d">>} : Includes(lower, part)
          THEN T_dimension
     ELSE T_unknown

\* C16: the sub-type inferred for a field of a composite value depends on
\* its name only, compared case-insensitively: 'color' for a name containing
\* "color", 'fontFamily' for "family", 'fontWeight' for "weight", 'dimension'
\* for any of size, width, height, spacing, offset, blur, spread, 'number'
\* for the name "lineheight", and 'unknown' for "style" and any other name.
C16_SubTypeByName ==
  (cphase = "done" /\ ctype \in CompositeTypes /\ IsObjectLike(cvalue)) =>
    /\ Len(subTypes) = Len(cvalue.e)
    /\ \A i \in 1..Len(subTypes) : subTypes[i] = RuleSubType(cvalue.e[i].key)

\* p is a proper prefix of q
ProperPrefix(p, q) == Len(p) < Len(q) /\ SubSeq(q, 1, Len(p)) = p

\* C20: in both dialects no record's path is a proper prefix of another
\* record's path, and no record comes from a node that lies below a node
\* with the leaf shape of the dialect.
C20_PrefixFree ==
  ephase = "extracted" =>
    /\ \A i, j \in 1..Len(etokens) : ~ProperPrefix(etokens[i].path, etokens[j].path)
    /\ \A i \in 1..Len(etokens) : NoLeafAbove(doc, etokens[i].path, usedFormat)

\* An extraction that emitted the node under "a" while a node of the same
\* leaf shape lies below it under "b"
C20_Witness ==
  /\ ephase = "extracted"
  /\ IsLeafOf(Get(doc, Seg_a), usedFormat)
  /\ IsLeafOf(Get(Get(doc, Seg_a), Seg_b), usedFormat)
  /\ \E i \in 1..Len(etokens) : etokens[i].path = <<Seg_a>>

\* C17: two records extracted from one document with different paths have
\* different identity keys, so the lookup mapping of resolveAliases holds one
\* entry per record.
C17_KeyAddressesOneToken ==
  ephase = "extracted" =>
    /\ \A i, j \in 1..Len(etokens) :
          etokens[i].path # etokens[j].path => PathKey(etokens[i].path) # PathKey(etokens[j].path)
    /\ Cardinality(KeysOf(etokens)) = Len(etokens)

----------------------------------------------------------------------------
(* Termination of resolveAliases.  The call runs to its end without        *)
(* interruption: a step of a running call that can be taken is taken.      *)

RunResolve ==
  \/ LoopResolveToken
  \/ ResolveAliasValue
  \/ FinishResolveToken
  \/ ReturnTokens

SpecResolveLive == InitResolve /\ [][NextResolve]_vars /\ WF_vars(RunResolve)

\* C19: every call of resolveAliases ends, by returning or by raising the
\* circular-reference error; no key is in the in-progress set and the
\* resolved set at once; a key enters the in-progress set only when it is
\* not marked resolved, leaves it only into the resolved set, and stays
\* resolved for the rest of the call.
C19_TerminatesOncePerKey ==
  /\ [](resolving \cap resolved = {})
  /\ [][/\ \A k \in resolving' \ resolving : k \notin resolved
        /\ (status = "running" /\ status' = "running") =>
              /\ resolved \subseteq resolved'
              /\ \A k \in resolving \ resolving' : k \in resolved']_vars
  /\ (status = "running") ~> (status \in {"returned", "threw"})

\* A call on an array with two tokens of one key has raised the error after
\* it had resolved a token
C19_Witness ==
  /\ status = "threw"
  /\ ~DistinctKeys(orig)
  /\ resolved # {}

----------------------------------------------------------------------------
(* resolveAliases as a function of the array: the same code as the steps   *)
(* above, run from the call to the return or the throw.  A run is the      *)
(* record of the array, the two sets, and whether and on what key the      *)
(* error was thrown.                                                       *)

Run(toks) == [toks |-> toks, resolved |-> {}, resolving |-> {}, threw |-> FALSE, err |-> NoKey]

RECURSIVE resolveToken(_, _)
RECURSIVE resolveValue(_, _)
RECURSIVE ResolveEntries(_, _, _)

\* The loop of lines 130-132 from entry i of the object under construction:
\* gives the run and the object
ResolveEntries(run, value, i) ==
  IF i > Len(value.e) \/ run.threw THEN [run |-> run, val |-> value]
  ELSE LET r == resolveValue(run, value.e[i].val)
       IN ResolveEntries(r.run, [value EXCEPT !.e[i].val = r.val], i + 1)

\* resolveValue(value, tokenKey): gives the run and the returned value
resolveValue(run, value) ==
  IF value.k = "str"
  THEN IF AliasMatch(value.s)
       THEN LET refPath == RefPath(value.s)
                ref == TokenMapGet(run.toks, refPath)
            IN IF refPath \in run.resolving
               THEN [run |-> [run EXCEPT !.threw = TRUE, !.err = refPath], val |-> value]
               ELSE IF ref = 0 THEN [run |-> run, val |-> value]
               ELSE LET after == resolveToken(run, ref)
                    IN [run |-> after, val |-> after.toks[ref].value]
       ELSE [run |-> run, val |-> value]
  ELSE IF IsPlainObject(value) THEN ResolveEntries(run, value, 1)
  ELSE [run |-> run, val |-> value]

\* resolveToken(token) for the token of index i
resolveToken(run, i) ==
  LET key == PathKey(run.toks[i].path)
  IN IF key \in run.resolved THEN run
     ELSE LET r == resolveValue([run EXCEPT !.resolving = @ \cup {key}], run.toks[i].value)
          IN IF r.run.threw THEN r.run
             ELSE [r.run EXCEPT !.toks[i].value = r.val,
                                !.resolving = @ \ {key},
                                !.resolved = @ \cup {key}]

\* for (const token of tokens) resolveToken(token), from index i
RECURSIVE ResolveLoop(_, _)
ResolveLoop(run, i) ==
  IF i > Len(run.toks) \/ run.threw THEN run
  ELSE ResolveLoop(resolveToken(run, i), i + 1)

resolveAliases(toks) == ResolveLoop(Run(toks), 1)

\* C15: for an array and any permutation of it, resolveAliases raises the
\* circular-reference error on both or returns on both, and then every token
\* has the same final value in both.
C15_OrderIndependent ==
  status \in {"returned", "threw"} =>
    \A f \in Permutations(1..Len(orig)) :
       LET other == resolveAliases([i \in 1..Len(orig) |-> orig[f[i]]])
       IN /\ other.threw <=> status = "threw"
          /\ status = "returned" =>
                \A i \in 1..Len(orig) : other.toks[i].value = tokens[f[i]].value

----------------------------------------------------------------------------
(* sassTokenImporter: load and its cache                                   *)

MaxLoads == 3
MaxWrites == 2

TOKEN_SCHEME == <<"t", "o", "k", "e", "n", ":">>

FilePaths == {<<"/", "t", "/", "a", ".", "j", "s", "o", "n">>, <<"/", "t", "/", "b", ".", "j", "s", "o", "n">>}

\* What canonicalize returns for the files above: `${TOKEN_SCHEME}${absolute}`
CanonicalUrls == {TOKEN_SCHEME \o p : p \in FilePaths}

\* canonicalUrl.toString().slice(TOKEN_SCHEME.length)
FilePath(url) == SubSeq(url, Len(TOKEN_SCHEME) + 1, Len(url))

\* A file: absent, text that is not JSON, or the JSON text of a document
NoFile == [kind |-> "absent", data |-> Undefined]
Malformed == [kind |-> "malformed", data |-> Undefined]
Json(d) == [kind |-> "json", data |-> d]

\* {a: {b: {$value: "x"}}} and a document with a circular alias,
\* {a: {$value: "{b}"}, b: {$value: "{a}"}}
FileDocuments ==
  { Obj(<<Entry(Seg_a, Obj(<<Entry(Seg_b, Obj(<<Entry(K_dvalue, Lit_x)>>))>>))>>),
    Obj(<<Entry(Seg_a, Obj(<<Entry(K_dvalue, Str(Braced(Seg_b)))>>)),
          Entry(Seg_b, Obj(<<Entry(K_dvalue, Str(Braced(Seg_a)))>>))>>) }

FileContents == {NoFile, Malformed} \cup {Json(d) : d \in FileDocuments}

\* Two importers: sassTokenImporter(dir) and
\* sassTokenImporter(dir, { output: 'map', resolveAliases: false })
Importers == {1, 2}

Options(inst) ==
  IF inst = 1 THEN [mode |-> "variables", shouldResolveAliases |-> TRUE]
  ELSE [mode |-> "map", shouldResolveAliases |-> FALSE]

\* generateScss(tokens, mode)
generateScss(toks, m) ==
  IF Len(toks) = 0 THEN <<>>
  ELSE IF m = "map" THEN generateScssMap(BuildTree(Obj(<<>>), toks, 1), toks)
  ELSE generateScssVariables(toks)

\* Lines 379-389 on what the file holds: whether an error is thrown, and the
\* contents otherwise
Pipeline(file, options) ==
  IF file.kind # "json" THEN [threw |-> TRUE, contents |-> <<>>]
  ELSE LET data == file.data
           fmt == detectFormat(data)
           extracted == extractTokens(data, fmt)
           run == IF options.shouldResolveAliases THEN resolveAliases(extracted)
                  ELSE Run(extracted)
       IN IF run.threw THEN [threw |-> TRUE, contents |-> <<>>]
          ELSE [threw |-> FALSE, contents |-> generateScss(run.toks, options.mode)]

\* const result = { contents, syntax: 'scss' }: a new object each time
Result(id, text) == [id |-> id, contents |-> text, syntax |-> "scss"]
NoResult == [id |-> 0, contents |-> <<>>, syntax |-> "none"]

\* cache.has(filePath) that never holds
NeverCached(inst, filePath) == FALSE
\* cache.has(filePath)
CacheHas(inst, filePath) == cache[inst][filePath] # NoResult

\* cache.set(filePath, result) placed before the pipeline has run
CacheSetBeforePipeline(inst, filePath, out, result) ==
  [cache EXCEPT ![inst][filePath] = result]
\* The cache after lines 379-392: cache.set is reached only when nothing threw
CacheAfterMiss(inst, filePath, out, result) ==
  IF out.threw THEN cache ELSE [cache EXCEPT ![inst][filePath] = result]

LoadEvent(inst, url, outcome, result, read, file) ==
  [inst |-> inst, url |-> url, outcome |-> outcome, result |-> result,
   read |-> read, file |-> file]

InitImport ==
  /\ files \in [FilePaths -> FileContents]
  /\ cache = [inst \in Importers |-> [p \in FilePaths |-> NoResult]]
  /\ history = <<>>
  /\ nextId = 1
  /\ writes = 0
  /\ ResolveOff /\ ExtractOff /\ GenOff /\ ConvertOff

\* load(canonicalUrl) on the importer inst: lines 372-394
LoadUrl(inst, url) ==
  LET filePath == FilePath(url)
      out == Pipeline(files[filePath], Options(inst))
      result == Result(nextId, out.contents)
  IN /\ Len(history) < MaxLoads
     /\ IF CacheHas(inst, filePath)
        THEN /\ history' = Append(history, LoadEvent(inst, url, "returned",
                                                     cache[inst][filePath], FALSE, files[filePath]))
             /\ UNCHANGED <<cache, nextId>>
        ELSE /\ cache' = CacheAfterMiss(inst, filePath, out, result)
             /\ IF out.threw
                THEN /\ history' = Append(history, LoadEvent(inst, url, "threw", NoResult,
                                                             TRUE, files[filePath]))
                     /\ UNCHANGED nextId
                ELSE /\ history' = Append(history, LoadEvent(inst, url, "returned", result,
                                                             TRUE, files[filePath]))
                     /\ nextId' = nextId + 1
     /\ UNCHANGED <<files, writes, rvars, evars, gvars, cvars>>

Load == \E inst \in Importers, url \in CanonicalUrls : LoadUrl(inst, url)

\* A token file is written, replaced or removed between two loads
ChangeFile ==
  /\ writes < MaxWrites
  /\ \E p \in FilePaths, c \in FileContents :
        /\ c # files[p]
        /\ files' = [files EXCEPT ![p] = c]
  /\ writes' = writes + 1
  /\ UNCHANGED <<cache, history, nextId, rvars, evars, gvars, cvars>>

NextImport ==
  \/ Load
  \/ ChangeFile

SpecImport == InitImport /\ [][NextImport]_vars

----------------------------------------------------------------------------
(* Properties of load                                                      *)

Loads == 1..Len(history)

\* The calls i and j are loads of one URL on one importer
SameLoad(i, j) == history[i].inst = history[j].inst /\ history[i].url = history[j].url

\* C14: once load has returned a result for a URL on an importer, every
\* later load of that URL on that importer returns the same result object
\* without reading the file, whatever the file holds by then; a cache entry
\* is never replaced or removed; a load changes the cache of its own
\* importer only, and two importers never return the same object.
C14_CachedForLifetime ==
  /\ [](\A i, j \in Loads :
          (i < j /\ SameLoad(i, j) /\ history[i].outcome = "returned") =>
             /\ history[j].outcome = "returned"
             /\ history[j].result = history[i].result
             /\ ~history[j].read)
  /\ [](\A i, j \in Loads :
          (history[i].inst # history[j].inst /\ history[i].outcome = "returned"
           /\ history[j].outcome = "returned") => history[i].result.id # history[j].result.id)
  /\ [][/\ \A inst \in Importers, p \in FilePaths :
              cache[inst][p] # NoResult => cache'[inst][p] = cache[inst][p]
        /\ \A inst \in Importers :
              cache'[inst] # cache[inst] =>
                 (history' # history /\ history'[Len(history')].inst = inst)]_vars

\* An importer has returned the same object twice for a URL whose file was
\* changed after the first load, and the other importer has loaded the URL too
C14_Witness ==
  \E i, j, k \in Loads :
     /\ i < j /\ SameLoad(i, j)
     /\ history[i].read /\ ~history[j].read
     /\ history[j].result = history[i].result
     /\ history[j].file # history[i].file
     /\ history[k].inst # history[i].inst /\ history[k].url = history[i].url
     /\ history[k].outcome = "returned"

\* C18: a load returns a complete { contents, syntax: 'scss' } or raises; a
\* load that raises leaves the cache as it was; the cache holds only
\* results that a load returned, each with the whole contents generated
\* from the file it read; a load is answered from the cache only after a
\* load of the same URL on the same importer has returned.
C18_NoPartialResult ==
  /\ [](\A i \in Loads :
          /\ history[i].outcome \in {"returned", "threw"}
          /\ history[i].outcome = "threw" => (history[i].read /\ history[i].result = NoResult)
          /\ (history[i].outcome = "returned" /\ history[i].read) =>
                LET out == Pipeline(history[i].file, Options(history[i].inst))
                IN /\ ~out.threw
                   /\ history[i].result.syntax = "scss"
                   /\ history[i].result.contents = out.contents
          /\ ~history[i].read =>
                \E h \in 1..(i - 1) :
                   SameLoad(h, i) /\ history[h].outcome = "returned" /\ history[h].read
                   /\ history[h].result = history[i].result)
  /\ [](\A inst \in Importers, p \in FilePaths :
          cache[inst][p] # NoResult =>
             \E i \in Loads :
                /\ history[i].inst = inst /\ FilePath(history[i].url) = p
                /\ history[i].outcome = "returned" /\ history[i].read
                /\ history[i].result = cache[inst][p])
  /\ [][(history' # history /\ history'[Len(history')].outcome = "threw") =>
           cache' = cache]_vars

\* A load raised on malformed JSON and one raised on a circular alias, and a
\* later load of the first URL on the same importer read the file again and
\* returned
C18_Witness ==
  \E i, j, k \in Loads :
     /\ i < j /\ SameLoad(i, j)
     /\ history[i].outcome = "threw" /\ history[i].file = Malformed
     /\ history[j].outcome = "returned" /\ history[j].read
     /\ history[k].outcome = "threw" /\ history[k].file.kind = "json"

====
